---- MODULE Spec2Model ----
(***************************************************************************)
(* Task orchestration core of src/optimized-hypervisor-z6scc2/agent_task.py *)
(*                                                                         *)
(* AgentTask        : registry entry with a chat context                   *)
(* AgentInlineTask  : a task with a one-shot completion future (_done_fut),*)
(*                    the coroutine run() and the two terminal tools       *)
(*                    on_success / on_error.                               *)
(*                                                                         *)
(* asyncio is cooperative: a coroutine runs without interruption between   *)
(* two awaits.  run() has exactly one await (line 186), so one call of     *)
(* run() is at most two atomic steps: RunStart (lines 160-186) and         *)
(* RunResume (lines 186-204).  Awaiting a future that is already done does *)
(* not yield, so in that case the whole call is the single step RunStart.  *)
(* on_success and on_error are plain functions: one step each.             *)
(***************************************************************************)
EXTENDS Integers, Sequences, FiniteSets, TLC

\* ------------------------------------------------------------- bounds --
\* Number of run() invocations explored in one behaviour.
MaxRuns == 2
\* Number of on_success / on_error invocations explored in one behaviour.
MaxOps == 2
\* Longest chat context the turn loop builds, and longest merge source.
MaxLen == 2
MaxSrc == 3

\* ----------------------------------------------------------- universe --
None == "None"

\* The task that is current before any delegation (an AgentTask such as
\* `assistant`), and the inline tasks that may be constructed.
RootTask == "A"
InlineTasks == {"B", "C"}
Tasks == {RootTask} \cup InlineTasks

\* Reasons handed to on_error, values handed as preset_result.
Reasons == {"user declined", "timeout"}
Results == {"v1"}

\* Registry keys: the names given to tasks (assistant.py:7, servicing.py:57)
\* and the concrete types of the instances.
Names == {"assistant", "servicing"}
Types == {"AgentTask", "AgentInlineTask"}
Keys == Names \cup Types
\* type(task)
TypeOf(task) == IF task = RootTask THEN "AgentTask" ELSE "AgentInlineTask"

\* The speech unit of the caller of run() (call_ctx.speech_handle), if any.
SpeechHandles == {"speech"}

VARIABLES
    pc,                 \* per inline task: position of its run() coroutine
    done_fut,           \* AgentInlineTask._done_fut
    result,             \* AgentInlineTask._result
    parent_task,        \* AgentInlineTask._parent_task
    parent_speech,      \* AgentInlineTask._parent_speech
    current_agent_task, \* agent.current_agent_task
    reply,              \* where the proactive reply of the last run() went
    outcome,            \* what the last run() call delivered to its caller
    entry_task,         \* history: current task when run() was last invoked
    exit_task,          \* history: current task right after run() last exited
    stack,              \* history: tasks with a run() in flight, oldest first
    lifo,               \* history: every run() exit so far was the innermost one
    first_op,           \* history: first terminal operation invoked on the task,
                        \*          and the completion slot and result it left
    ops_called,         \* history: which terminal operations were invoked
    nruns,              \* number of run() invocations so far
    nops,               \* number of terminal operation invocations so far
    chat_ctx,           \* AgentTask._chat_ctx.messages, per task
    last_inject,        \* history: the last inject_chat_ctx call
    registered_tasks,   \* AgentTask._registered_tasks: key -> instance
    constructed,        \* the task instances constructed so far
    task_name,          \* AgentTask._name, per task
    last_call,          \* history: the last call on the registry
    interrupted         \* speech units (a caller's speech, or the proactive
                        \* reply of a task) that have been interrupted

taskVars == <<pc, done_fut, result, parent_task, parent_speech,
              current_agent_task, reply, outcome, entry_task, exit_task,
              stack, lifo, first_op, ops_called, nruns, nops>>
chatVars == <<chat_ctx, last_inject>>
regVars == <<registered_tasks, constructed, task_name, last_call>>
speechVars == <<interrupted>>
vars == <<taskVars, chatVars, regVars, speechVars>>

\* ------------------------------------------------- asyncio.Future ------
\* A future is pending, holds a result, holds an exception, or is cancelled.
Pending == [state |-> "pending", reason |-> None]
Resolved == [state |-> "result", reason |-> None]
Failed(reason) == [state |-> "exception", reason |-> reason]
Cancelled == [state |-> "cancelled", reason |-> None]

\* Future.done()
Done(fut) == fut.state # "pending"

\* Future.set_result(None) behind the guard of on_success (lines 211-212).
SetResultNever(fut) == fut
SetResultUnguarded(fut) == Resolved
SetResultGuarded(fut) == IF ~Done(fut) THEN Resolved ELSE fut

\* Future.set_exception(TaskFailed(reason)) behind the guard of on_error
\* (lines 223-224).
SetExceptionUnguarded(fut, reason) == Failed(reason)
SetExceptionGuarded(fut, reason) == IF ~Done(fut) THEN Failed(reason) ELSE fut

\* The property `exception`, lines 235-237: Future.exception() returns the
\* exception of a done future (None when it holds a result) and raises
\* InvalidStateError on a pending and CancelledError on a cancelled one.
exception(fut) ==
    IF fut.state = "pending" THEN [raises |-> "InvalidStateError"]
    ELSE IF fut.state = "cancelled" THEN [raises |-> "CancelledError"]
    ELSE IF fut.state = "exception"
    THEN [raises |-> None, value |-> [type |-> "TaskFailed", reason |-> fut.reason]]
    ELSE [raises |-> None, value |-> None]

\* Lines 213 and 225, with lines 22-30: what a terminal operation hands back,
\* SilentSentinel(result=self.result, error=self.exception), or the exception
\* that reading self.exception raises.
SilentSentinel(res, fut) ==
    IF exception(fut).raises # None
    THEN [raised |-> exception(fut).raises]
    ELSE [raised |-> None, result |-> res, error |-> exception(fut).value]

\* ------------------------------------------------- run(): outcomes -----
\* The outcome of a run() call: how the await at line 186 ended ("await":
\* the future was resolved, "cancel": CancelledError, "setup": an error
\* raised before the await), the kind of return/exception, and its payload.
Outcome(via, kind, val) == [via |-> via, kind |-> kind, val |-> val]
NoOutcome == Outcome(None, None, None)

\* Lines 186-192.  Awaiting a future that holds an exception raises it at
\* line 186 (lines 187-188 would raise the same object); awaiting a cancelled
\* future raises CancelledError.
Step5Swapped(fut, res) ==
    IF fut.state = "cancelled" THEN Outcome("cancel", "CancelledError", None)
    ELSE IF res = None THEN Outcome("await", "ResultNotSet", None)
    ELSE IF fut.state = "exception" THEN Outcome("await", "TaskFailed", fut.reason)
    ELSE Outcome("await", "value", res)
Step5DropsValue(fut, res) ==
    IF fut.state = "cancelled" THEN Outcome("cancel", "CancelledError", None)
    ELSE IF fut.state = "exception" THEN Outcome("await", "TaskFailed", fut.reason)
    ELSE IF res = None THEN Outcome("await", "ResultNotSet", None)
    ELSE Outcome("await", "value", None)
Step5NoCheck(fut, res) ==
    IF fut.state = "cancelled" THEN Outcome("cancel", "CancelledError", None)
    ELSE IF fut.state = "exception" THEN Outcome("await", "TaskFailed", fut.reason)
    ELSE Outcome("await", "value", res)
Step5(fut, res) ==
    IF fut.state = "cancelled" THEN Outcome("cancel", "CancelledError", None)
    ELSE IF fut.state = "exception" THEN Outcome("await", "TaskFailed", fut.reason)
    ELSE IF res = None THEN Outcome("await", "ResultNotSet", None)
    ELSE Outcome("await", "value", res)

\* Lines 196-204: the debug record of the finally block reads self.exception,
\* i.e. _done_fut.exception(), which raises InvalidStateError on a pending
\* future and CancelledError on a cancelled one; an exception raised in a
\* finally block replaces the one in flight.
FinallyLog(fut, out) ==
    IF fut.state = "pending" THEN Outcome(out.via, "InvalidStateError", None)
    ELSE IF fut.state = "cancelled" THEN Outcome(out.via, "CancelledError", None)
    ELSE out

\* agent.update_task(task), lines 165 and 195: the orchestrator's setter of
\* its current task.
update_task(task) == task

\* Line 163: the parent captured by run().
CapturedParent(cur, t) == cur

\* Line 195: the task the finally block installs.
RestoreNothing(t, parent) == t
RestoreRoot(t, parent) == RootTask
RestoredTask(t, parent) == parent

\* ------------------------------------------------- history helpers -----
Top(s) == s[Len(s)]
Remove(s, t) == SelectSeq(s, LAMBDA x : x # t)

\* ------------------------------------------------- chat messages -------
MsgIds == {"m1", "m2", "m3"}
Texts == {"hi"}
\* Messages a turn loop or a caller may hold.
Msgs == [id : MsgIds, role : {"user"}, text : Texts]
\* The system message ChatContext.append creates from the instructions of
\* task t (line 47); its id is fresh, so it is unique to t.
SystemMsg(t, text) == [id |-> "sys-" \o t, role |-> "system", text |-> text]

\* Instruction strings a task may be constructed with.
Instructions == {"", "be brief", "be kind"}

\* Lines 44-47: the chat context of a freshly constructed task.
SeedUnlessNone(t, instructions) ==
    IF instructions # None
    THEN <<SystemMsg(t, instructions)>>
    ELSE << >>
SeededCtx(t, instructions) ==
    IF instructions # None /\ instructions # ""
    THEN <<SystemMsg(t, instructions)>>
    ELSE << >>

\* ------------------------------------------------------------- Init ----
\* The fields as the constructors leave them (lines 37-68 and 141-155): the
\* root task is current and registered under its name, as `assistant` is
\* (assistant.py:6-39); every inline task has a pending future, the
\* preset_result it was given (None when none was given), no parent yet, no
\* name, and a chat context seeded from its instructions.
NoFirst == [op |-> None, reason |-> None, fut |-> Pending, result |-> None]
NoInject == [task |-> None, src |-> << >>, before |-> << >>, once |-> << >>,
             times |-> 0]
NoCall == [op |-> None, key |-> None, task |-> None, was |-> None,
           ret |-> None, list |-> << >>, changed |-> FALSE]

InitFields ==
    /\ pc = [t \in InlineTasks |-> "created"]
    /\ done_fut = [t \in InlineTasks |-> Pending]
    /\ result \in [InlineTasks -> Results \cup {None}]
    /\ parent_task = [t \in InlineTasks |-> None]
    /\ parent_speech = [t \in InlineTasks |-> None]
    /\ current_agent_task = RootTask
    /\ reply = [t \in InlineTasks |-> "none"]
    /\ outcome = [t \in InlineTasks |-> NoOutcome]
    /\ entry_task = [t \in InlineTasks |-> None]
    /\ exit_task = [t \in InlineTasks |-> None]
    /\ stack = <<RootTask>>
    /\ lifo = TRUE
    /\ first_op = [t \in InlineTasks |-> NoFirst]
    /\ ops_called = [t \in InlineTasks |-> {}]
    /\ nruns = 0
    /\ nops = 0
    /\ chat_ctx = [t \in Tasks |-> SeededCtx(t, "be brief")]
    /\ last_inject = NoInject
    /\ registered_tasks = ("assistant" :> RootTask)
    /\ task_name = [t \in Tasks |-> IF t = RootTask THEN "assistant" ELSE None]
    /\ last_call = NoCall
    /\ interrupted = {}

\* The state in which delegation starts: every task has been constructed.
Init == InitFields /\ constructed = Tasks

\* ------------------------------------------------- AgentInlineTask -----
\* Lines 172-183: where the proactive reply goes.
PlacementQueuedOnly(proactive_reply, sp, fails) ==
    IF ~proactive_reply \/ fails THEN "none" ELSE "queued"
Placement(proactive_reply, sp, fails) ==
    IF ~proactive_reply \/ fails THEN "none"
    ELSE IF sp # None THEN "nested" ELSE "queued"

\* The exit of run(): the finally block (lines 193-204) and what reaches the
\* caller.  `parent` is self._parent_task as the finally block reads it.
RunExitLogFirst(t, parent, out) ==
    /\ current_agent_task' =
           IF done_fut[t].state \in {"pending", "cancelled"}
           THEN update_task(t)
           ELSE update_task(RestoredTask(t, parent))
    /\ exit_task' = [exit_task EXCEPT ![t] = current_agent_task']
    /\ outcome' = [outcome EXCEPT ![t] = FinallyLog(done_fut[t], out)]
    /\ pc' = [pc EXCEPT ![t] = "exited"]
RunExit(t, parent, out) ==
    /\ current_agent_task' = update_task(RestoredTask(t, parent))
    /\ exit_task' = [exit_task EXCEPT ![t] = current_agent_task']
    /\ outcome' = [outcome EXCEPT ![t] = FinallyLog(done_fut[t], out)]
    /\ pc' = [pc EXCEPT ![t] = "exited"]

\* run(), lines 160-186: capture the parent, install self, start the
\* proactive reply, reach the await.  `fails`: starting the reply raises.
\* With the future already done the await does not suspend and the call runs
\* to its end in this step.  A task has one run() call in flight at a time
\* (the delegating tool awaits the run() it started); run() may be called
\* again on a task whose earlier call has ended.
RunStart(t, proactive_reply, sp, fails) ==
    /\ pc[t] \in {"created", "exited"}
    /\ nruns < MaxRuns
    /\ fails => proactive_reply
    /\ nruns' = nruns + 1
    /\ entry_task' = [entry_task EXCEPT ![t] = current_agent_task]
    /\ parent_task' = [parent_task EXCEPT
                          ![t] = CapturedParent(current_agent_task, t)]
    /\ parent_speech' = [parent_speech EXCEPT ![t] = sp]
    /\ reply' = [reply EXCEPT ![t] = Placement(proactive_reply, sp, fails)]
    /\ IF fails
       THEN /\ RunExit(t, parent_task'[t], Outcome("setup", "SetupError", None))
            /\ UNCHANGED <<stack, lifo>>
       ELSE IF Done(done_fut[t])
       THEN /\ RunExit(t, parent_task'[t], Step5(done_fut[t], result[t]))
            /\ UNCHANGED <<stack, lifo>>
       ELSE /\ current_agent_task' = update_task(t)
            /\ pc' = [pc EXCEPT ![t] = "awaiting"]
            /\ outcome' = [outcome EXCEPT ![t] = NoOutcome]
            /\ stack' = Append(stack, t)
            /\ UNCHANGED <<exit_task, lifo>>
    /\ UNCHANGED <<done_fut, result, first_op, ops_called, nops, chatVars, regVars,
                   speechVars>>

\* run(), lines 186-204: the suspended call is woken, because the future was
\* resolved or because the call was cancelled.
RunResume(t) ==
    /\ \/ pc[t] = "awaiting" /\ Done(done_fut[t])
          /\ RunExit(t, parent_task[t], Step5(done_fut[t], result[t]))
       \/ pc[t] = "cancelling"
          /\ RunExit(t, parent_task[t], Outcome("cancel", "CancelledError", None))
    /\ stack' = Remove(stack, t)
    /\ lifo' = (lifo /\ Top(stack) = t)
    /\ UNCHANGED <<done_fut, result, parent_task, parent_speech, reply,
                   entry_task, first_op, ops_called, nruns, nops, chatVars, regVars,
                   speechVars>>

\* asyncio cancels the task that awaits run(): Task.cancel() cancels the
\* future the task waits on when it is still pending, and CancelledError is
\* thrown into the coroutine on its next step.
Cancel(t) ==
    /\ pc[t] = "awaiting"
    /\ pc' = [pc EXCEPT ![t] = "cancelling"]
    /\ done_fut' = [done_fut EXCEPT
                       ![t] = IF Done(@) THEN @ ELSE Cancelled]
    /\ UNCHANGED <<result, parent_task, parent_speech, current_agent_task,
                   reply, outcome, entry_task, exit_task, stack, lifo,
                   first_op, ops_called, nruns, nops, chatVars, regVars,
                   speechVars>>

\* History of the terminal operations.
Record(t, op, reason) ==
    /\ nops < MaxOps
    /\ nops' = nops + 1
    /\ ops_called' = [ops_called EXCEPT ![t] = @ \cup {op}]
    /\ first_op' = [first_op EXCEPT
                       ![t] = IF @.op = None
                              THEN [op |-> op, reason |-> reason,
                                    fut |-> done_fut'[t], result |-> result'[t]]
                              ELSE @]

\* on_success, lines 206-213.
OnSuccessRestores(t) ==
    /\ t \in InlineTasks
    /\ done_fut' = [done_fut EXCEPT ![t] = SetResultGuarded(@)]
    /\ current_agent_task' =
           IF parent_task[t] # None THEN parent_task[t] ELSE current_agent_task
    /\ UNCHANGED <<pc, result, parent_task, parent_speech, reply, outcome,
                   entry_task, exit_task, stack, lifo, nruns, chatVars,
                   regVars, speechVars>>
    /\ Record(t, "on_success", None)
on_success(t) ==
    /\ t \in InlineTasks
    /\ done_fut' = [done_fut EXCEPT ![t] = SetResultGuarded(@)]
    /\ UNCHANGED <<pc, result, parent_task, parent_speech, current_agent_task,
                   reply, outcome, entry_task, exit_task, stack, lifo, nruns,
                   chatVars, regVars,
                   speechVars>>
    /\ Record(t, "on_success", None)

\* on_error, lines 215-225.
on_error(t, reason) ==
    /\ t \in InlineTasks
    /\ done_fut' = [done_fut EXCEPT ![t] = SetExceptionGuarded(@, reason)]
    /\ UNCHANGED <<pc, result, parent_task, parent_speech, current_agent_task,
                   reply, outcome, entry_task, exit_task, stack, lifo, nruns,
                   chatVars, regVars,
                   speechVars>>
    /\ Record(t, "on_error", reason)

Next ==
    \/ \E t \in InlineTasks, p \in BOOLEAN, sp \in SpeechHandles \cup {None},
          f \in BOOLEAN : RunStart(t, p, sp, f)
    \/ \E t \in InlineTasks : RunResume(t)
    \/ \E t \in InlineTasks : Cancel(t)
    \/ \E t \in InlineTasks : on_success(t)
    \/ \E t \in InlineTasks, reason \in Reasons : on_error(t, reason)

Spec == Init /\ [][Next]_vars

\* The event loop runs every callback that is ready: a run() call whose
\* future is done, or that was cancelled, is woken (a done future schedules
\* the wake-up of its waiter with call_soon).
Fairness == \A t \in InlineTasks : WF_vars(RunResume(t))
\* The inline tasks were constructed without a preset_result.
InitLive == Init /\ result = [t \in InlineTasks |-> None]
SpecLive == InitLive /\ [][Next]_vars /\ Fairness

\* ------------------------------------------------- interruption -------
\* The inline tasks whose proactive reply was nested under the speech sp
\* (add_nested_speech, lines 180-181).
NestedUnderNone(sp) == {}
NestedUnder(sp) ==
    {t \in InlineTasks : reply[t] = "nested" /\ parent_speech[t] = sp}

\* The user interrupts the speech sp: the speech and the replies nested
\* under it are interrupted.  run() awaits only its future (line 186), and
\* no field of a task refers to the interruption.
InterruptSpeech(sp) ==
    /\ sp \notin interrupted
    /\ interrupted' = interrupted \cup {sp} \cup NestedUnder(sp)
    /\ UNCHANGED <<taskVars, chatVars, regVars>>

NextSpeech ==
    \/ Next
    \/ \E sp \in SpeechHandles : InterruptSpeech(sp)

\* Delegation while the user may interrupt the speech of the caller.
SpecSpeech == InitLive /\ [][NextSpeech]_vars

\* ------------------------------------------------- chat contexts -------
Ids(messages) == {messages[i].id : i \in DOMAIN messages}

\* inject_chat_ctx, lines 91-96: the ids are read once, before the loop, and
\* every message of the source whose id is not among them is appended.
InjectNoFilter(messages, src) == messages \o src
InjectInFront(messages, src) ==
    SelectSeq(src, LAMBDA m : m.id \notin Ids(messages)) \o messages
inject_chat_ctx(messages, src) ==
    LET existing_messages == Ids(messages)
    IN messages \o SelectSeq(src, LAMBDA m : m.id \notin existing_messages)

\* Sequences over S of length at most n.
BoundedSeq(S, n) == UNION {[1..k -> S] : k \in 0..n}

\* The ChatContext handed to inject_chat_ctx: a context built elsewhere, or
\* the context of a task (the target's own included).
Sources == BoundedSeq(Msgs, MaxSrc) \cup {chat_ctx[u] : u \in Tasks}

\* The turn loop appends a message to the context of the current task
\* (ChatContext.append: no uniqueness check).
AppendMsg(m) ==
    /\ Len(chat_ctx[current_agent_task]) < MaxLen
    /\ chat_ctx' = [chat_ctx EXCEPT ![current_agent_task] = Append(@, m)]
    /\ last_inject' = NoInject
    /\ UNCHANGED <<taskVars, regVars, speechVars>>

\* t.inject_chat_ctx(S).  The history records the call; a second call with
\* the same source, directly after the first, is counted.
Repeats(t, S) ==
    last_inject.task = t /\ last_inject.src = S /\ last_inject.times = 1
InjectChatCtx(t, S) ==
    /\ Len(chat_ctx[t]) <= MaxLen \/ Repeats(t, S)
    /\ chat_ctx' = [chat_ctx EXCEPT ![t] = inject_chat_ctx(@, S)]
    /\ last_inject' = IF Repeats(t, S)
                      THEN [last_inject EXCEPT !.times = 2]
                      ELSE [task |-> t, src |-> S, before |-> chat_ctx[t],
                            once |-> chat_ctx'[t], times |-> 1]
    /\ UNCHANGED <<taskVars, regVars, speechVars>>

NextChat ==
    \/ \E m \in Msgs : AppendMsg(m)
    \/ \E S \in Sources : InjectChatCtx(current_agent_task, S)

\* The chat contexts on their own: no delegation takes place, the root task
\* stays current.
InitChat == Init /\ result = [t \in InlineTasks |-> None]
SpecChat == InitChat /\ [][NextChat]_vars

\* A conversation with delegation: while inline tasks are run and resolved,
\* the turn loop appends the messages of the conversation to the context of
\* the task that is current.
NextTurns ==
    \/ \E t \in InlineTasks : RunStart(t, FALSE, None, FALSE)
    \/ \E t \in InlineTasks : RunResume(t)
    \/ \E t \in InlineTasks : on_success(t)
    \/ \E t \in InlineTasks : on_error(t, "timeout")
    \/ \E m \in Msgs : AppendMsg(m)
SpecTurns == InitLive /\ [][NextTurns]_vars

\* ------------------------------------------------- registry ------------
\* AgentTask._registered_tasks is one dictionary for the class and all its
\* subclasses (line 35): a function from the keys present to instances.
\* Lines 77-87: the key a registration uses.
KeyByType(task, name) == TypeOf(task)
RegistryKey(task, name) == IF name # None THEN name ELSE TypeOf(task)

\* register_task, lines 70-89: the registry it leaves and what the caller
\* gets (the task, or ValueError).
RegisterOverwrites(reg, task, name) ==
    LET key == RegistryKey(task, name)
    IN [registry |-> [k \in DOMAIN reg \cup {key} |->
                         IF k = key THEN task ELSE reg[k]],
        ret |-> task]
RegisterThenCheck(reg, task, name) ==
    LET key == RegistryKey(task, name)
    IN [registry |-> [k \in DOMAIN reg \cup {key} |->
                         IF k = key THEN task ELSE reg[k]],
        ret |-> IF key \in DOMAIN reg THEN "ValueError" ELSE task]
register_task(reg, task, name) ==
    LET key == RegistryKey(task, name)
    IN IF key \in DOMAIN reg
       THEN [registry |-> reg, ret |-> "ValueError"]
       ELSE [registry |-> reg @@ (key :> task), ret |-> task]

\* get_task, lines 122-127.
GetOrDefault(reg, key) == IF key \notin DOMAIN reg THEN RootTask ELSE reg[key]
get_task(reg, key) == IF key \notin DOMAIN reg THEN "ValueError" ELSE reg[key]

\* all_registered_tasks, lines 129-132: list(set(values)).  The order of the
\* list is the iteration order of a set, which is not determined: every
\* listing of the set is a possible return value.
Listings(S) ==
    {l \in [1..Cardinality(S) -> S] :
        \A i, j \in 1..Cardinality(S) : i # j => l[i] # l[j]}
ListOfValues(reg) ==
    {[i \in 1..Cardinality(DOMAIN reg) |-> reg[ks[i]]] :
        ks \in Listings(DOMAIN reg)}
all_registered_tasks(reg) == Listings({reg[k] : k \in DOMAIN reg})

\* The instance a key maps to before a call (None: the key is absent).
Was(key) ==
    IF key \in DOMAIN registered_tasks THEN registered_tasks[key] ELSE None

\* AgentTask(name=name) / AgentInlineTask(name=name), lines 37-68: a name
\* registers the new instance (lines 65-67); when that raises, the
\* constructor raises and no instance comes into being.  The chat context is
\* seeded from the instructions (lines 44-47); the other fields of the
\* instance are the ones InitFields gives.
Construct(t, name, instructions) ==
    /\ t \notin constructed
    /\ LET r == IF name # None
                THEN register_task(registered_tasks, t, name)
                ELSE [registry |-> registered_tasks, ret |-> t]
       IN /\ registered_tasks' = r.registry
          /\ constructed' = IF r.ret = "ValueError" THEN constructed
                            ELSE constructed \cup {t}
          /\ task_name' = IF r.ret = "ValueError" THEN task_name
                          ELSE [task_name EXCEPT ![t] = name]
          /\ last_call' = [op |-> "construct", key |-> name, task |-> t,
                           was |-> Was(name), ret |-> r.ret, list |-> << >>,
                           changed |-> registered_tasks' # registered_tasks]
          /\ chat_ctx' = IF r.ret = "ValueError" THEN chat_ctx
                         ELSE [chat_ctx EXCEPT
                                  ![t] = SeededCtx(t, instructions)]
    /\ UNCHANGED <<taskVars, last_inject, speechVars>>

\* AgentTask.register_task(t, name) on an existing instance.
RegisterTask(t, name) ==
    /\ t \in constructed
    /\ LET r == register_task(registered_tasks, t, name)
       IN /\ registered_tasks' = r.registry
          /\ last_call' = [op |-> "register_task",
                           key |-> RegistryKey(t, name), task |-> t,
                           was |-> Was(RegistryKey(t, name)), ret |-> r.ret,
                           list |-> << >>,
                           changed |-> registered_tasks' # registered_tasks]
    /\ UNCHANGED <<constructed, task_name, taskVars, chatVars, speechVars>>

\* AgentTask.get_task(key).
GetTask(key) ==
    /\ last_call' = [op |-> "get_task", key |-> key, task |-> None,
                     was |-> Was(key),
                     ret |-> get_task(registered_tasks, key), list |-> << >>,
                     changed |-> FALSE]
    /\ UNCHANGED <<registered_tasks, constructed, task_name, taskVars,
                   chatVars, speechVars>>

\* AgentTask.all_registered_tasks().
AllRegisteredTasks ==
    /\ \E l \in all_registered_tasks(registered_tasks) :
           last_call' = [op |-> "all_registered_tasks", key |-> None,
                         task |-> None, was |-> None, ret |-> None,
                         list |-> l, changed |-> FALSE]
    /\ UNCHANGED <<registered_tasks, constructed, task_name, taskVars,
                   chatVars, speechVars>>

\* The registry in use: tasks are constructed and registered while the
\* inline tasks that exist are run and resolved.
NextRegistry ==
    \/ \E t \in Tasks, name \in Names \cup {None} :
           Construct(t, name, "be brief")
    \/ \E t \in Tasks, name \in Names \cup {None} : RegisterTask(t, name)
    \/ \E key \in Keys : GetTask(key)
    \/ AllRegisteredTasks
    \/ \E t \in constructed \cap InlineTasks : RunStart(t, FALSE, None, FALSE)
    \/ \E t \in constructed \cap InlineTasks : RunResume(t)
    \/ \E t \in constructed \cap InlineTasks : on_success(t)
    \/ \E t \in constructed \cap InlineTasks : on_error(t, "timeout")

\* `assistant` exists and is registered; the inline tasks are still to be
\* constructed.
InitRegistry ==
    /\ InitFields
    /\ result = [t \in InlineTasks |-> None]
    /\ constructed = {RootTask}
SpecRegistry == InitRegistry /\ [][NextRegistry]_vars

\* Tasks are constructed with and without instructions, and the turn loop
\* appends to the context of the current task.
NextSeed ==
    \/ \E t \in Tasks, name \in Names \cup {None},
          instructions \in Instructions \cup {None} :
           Construct(t, name, instructions)
    \/ \E m \in Msgs : AppendMsg(m)
SpecSeed == InitRegistry /\ [][NextSeed]_vars

\* =========================================================== claims =====
Exited(t) == pc[t] = "exited"
\* The last run() call of t ended at lines 186-192: its await was ended by
\* the resolution of the future, not by cancellation or a setup error.
ExitedByResolution(t) == Exited(t) /\ outcome[t].via = "await"
BothOps == {"on_success", "on_error"}

\* C1 (parent restoration): whenever a run() call has ended with a terminal
\* outcome (a returned value, ResultNotSet or TaskFailed), the current task
\* right after its exit was the task that was current when it was invoked.
C1_ParentRestoration ==
    \A t \in InlineTasks :
        ExitedByResolution(t) =>
            /\ outcome[t].kind \in {"value", "ResultNotSet", "TaskFailed"}
            /\ exit_task[t] = entry_task[t]

\* Two runs have ended, one nested in the other, one with ResultNotSet and
\* one with TaskFailed.
C1_Witness ==
    \E t, u \in InlineTasks :
        /\ ExitedByResolution(t) /\ ExitedByResolution(u)
        /\ entry_task[t] = RootTask /\ entry_task[u] = t
        /\ outcome[t].kind = "ResultNotSet" /\ outcome[u].kind = "TaskFailed"

\* C2 (nested delegation): as long as the runs exit innermost first, the
\* current task is the innermost task whose run is in flight (the root task
\* when none is), and the parent each suspended run will restore is the task
\* directly below it: the exit of C inside B makes B current, the exit of B
\* then makes A current.
C2_NestedDelegation ==
    lifo =>
        /\ current_agent_task = Top(stack)
        /\ \A i \in 2..Len(stack) : parent_task[stack[i]] = stack[i - 1]

\* A was current, B ran, C ran inside B; C succeeded and exited, then B
\* succeeded and exited, and A is current again.
C2_Witness ==
    \E b, c \in InlineTasks :
        /\ lifo /\ stack = <<RootTask>> /\ current_agent_task = RootTask
        /\ entry_task[b] = RootTask /\ entry_task[c] = b
        /\ ExitedByResolution(b) /\ ExitedByResolution(c)
        /\ first_op[b].op = "on_success" /\ first_op[c].op = "on_success"
        /\ exit_task[c] = b /\ exit_task[b] = RootTask

\* C3 (single resolution): once a terminal operation has been invoked on a
\* task, the completion slot (kind and reason) and the stored result are the
\* ones the first invocation left, whatever was invoked afterwards.
C3_SingleResolution ==
    \A t \in InlineTasks :
        first_op[t].op # None =>
            /\ done_fut[t] = first_op[t].fut
            /\ result[t] = first_op[t].result

\* on_error resolved the slot and on_success was invoked afterwards.
C3_Witness ==
    \E t \in InlineTasks :
        /\ first_op[t].op = "on_error" /\ ops_called[t] = BothOps
        /\ done_fut[t] = Failed("user declined")

\* C4 (failure scenario): when on_error(r) resolved the slot of a task and a
\* run() of the task was ended by that resolution, run() failed with
\* TaskFailed carrying r, and the task current before run() is current after.
C4_FailurePropagates ==
    \A t \in InlineTasks :
        (/\ ExitedByResolution(t)
         /\ first_op[t].op = "on_error"
         /\ first_op[t].fut.state = "exception") =>
            /\ outcome[t] = Outcome("await", "TaskFailed", first_op[t].reason)
            /\ exit_task[t] = entry_task[t]

\* B ran with A current, was failed with "user declined" while suspended,
\* and its run has failed.
C4_Witness ==
    \E t \in InlineTasks :
        /\ ExitedByResolution(t) /\ entry_task[t] = RootTask
        /\ first_op[t].op = "on_error"
        /\ first_op[t].reason = "user declined"
        /\ outcome[t].kind = "TaskFailed"
        /\ current_agent_task = RootTask

\* C5 (unset result): when the slot of a task was resolved by on_success and
\* its result is None, a run() ended by that resolution failed with
\* ResultNotSet and restored the parent.
C5_UnsetResult ==
    \A t \in InlineTasks :
        (/\ ExitedByResolution(t)
         /\ done_fut[t].state = "result"
         /\ result[t] = None) =>
            /\ outcome[t] = Outcome("await", "ResultNotSet", None)
            /\ exit_task[t] = entry_task[t]

\* A task without a result was resolved by on_success inside another task.
C5_Witness ==
    \E t \in InlineTasks :
        /\ ExitedByResolution(t) /\ entry_task[t] \in InlineTasks
        /\ first_op[t].op = "on_success" /\ result[t] = None
        /\ outcome[t].kind = "ResultNotSet"

\* C6 (successful return): when the slot of a task was resolved by on_success
\* and its result is set, a run() ended by that resolution returned exactly
\* the stored result.
C6_ReturnsResult ==
    \A t \in InlineTasks :
        (/\ ExitedByResolution(t)
         /\ done_fut[t].state = "result"
         /\ result[t] # None) =>
            outcome[t] = Outcome("await", "value", result[t])

\* A task with a preset result was resolved by on_success and has returned.
C6_Witness ==
    \E t \in InlineTasks :
        /\ ExitedByResolution(t) /\ first_op[t].op = "on_success"
        /\ result[t] \in Results /\ outcome[t].kind = "value"

\* C7 (the first terminal operation wins): when both operations were invoked
\* on a task, a run() ended by the resolution failed with TaskFailed and the
\* reason of on_error if on_error came first, and ended as a success (the
\* result, or ResultNotSet) if on_success came first.
C7_FirstWins ==
    \A t \in InlineTasks :
        (ExitedByResolution(t) /\ ops_called[t] = BothOps) =>
            /\ first_op[t].op = "on_error" =>
                   outcome[t] = Outcome("await", "TaskFailed", first_op[t].reason)
            /\ first_op[t].op = "on_success" =>
                   outcome[t].kind \in {"value", "ResultNotSet"}

\* on_success, then on_error, then the suspended run returned the result.
C7_Witness ==
    \E t \in InlineTasks :
        /\ ExitedByResolution(t) /\ ops_called[t] = BothOps
        /\ first_op[t].op = "on_success" /\ outcome[t].kind = "value"
        /\ nruns = 1

\* C8 (run suspends until resolution), as claimed: a run() ended by the
\* resolution has a resolved slot, and, no run having been cancelled or
\* having failed in its setup, a task suspended in run() with a pending slot
\* that is the innermost delegation is the current task.
NoAbnormalExit ==
    \A u \in InlineTasks :
        pc[u] # "cancelling" /\ outcome[u].via \notin {"cancel", "setup"}
C8_SuspendedIsCurrent ==
    /\ \A t \in InlineTasks : ExitedByResolution(t) => Done(done_fut[t])
    /\ NoAbnormalExit =>
           \A t \in InlineTasks :
               (pc[t] = "awaiting" /\ ~Done(done_fut[t]) /\ Top(stack) = t) =>
                   current_agent_task = t

\* x is a subsequence of y: the elements of x occur in y at increasing
\* positions.
IsSubseq(x, y) ==
    \E f \in [1..Len(x) -> 1..Len(y)] :
        /\ \A i \in 1..Len(x) : x[i] = y[f[i]]
        /\ \A i, j \in 1..Len(x) : i < j => f[i] < f[j]

\* C9 (merge idempotence): after inject_chat_ctx was called twice in a row on
\* a task with the same source, the context of the task is the one the first
\* call left.
C9_MergeIdempotent ==
    last_inject.times = 2 => chat_ctx[last_inject.task] = last_inject.once

\* The same source was merged twice; it held a message the context already
\* had and two it did not, and the first merge made the context longer.
C9_Witness ==
    /\ last_inject.times = 2
    /\ Len(last_inject.once) >= Len(last_inject.before) + 2
    /\ Ids(last_inject.src) \cap Ids(last_inject.before) # {}

\* C10 (merge order preservation): right after inject_chat_ctx(S) on a
\* context C, C is a prefix of the new context, and what follows it is a
\* subsequence of S made of messages whose id C did not have.
C10_MergeOrder ==
    last_inject.times = 1 =>
        LET C == last_inject.before
            S == last_inject.src
            after == chat_ctx[last_inject.task]
            added == SubSeq(after, Len(C) + 1, Len(after))
        IN /\ Len(after) >= Len(C)
           /\ SubSeq(after, 1, Len(C)) = C
           /\ IsSubseq(added, S)
           /\ \A i \in 1..Len(added) : added[i].id \notin Ids(C)
           /\ \A i \in 1..Len(S) :
                  S[i].id \notin Ids(C) => \E j \in 1..Len(added) : added[j] = S[i]

\* A source of three messages, the middle one already in the context, was
\* merged into a context of two messages: two messages were added.
C10_Witness ==
    /\ last_inject.times = 1
    /\ Len(last_inject.before) = 2
    /\ Len(last_inject.src) = 3
    /\ last_inject.src[2].id \in Ids(last_inject.before)
    /\ last_inject.src[1].id # last_inject.src[3].id
    /\ Len(chat_ctx[last_inject.task]) = 4

\* The ids of a context are pairwise distinct.
UniqueIds(messages) ==
    \A i, j \in DOMAIN messages : i # j => messages[i].id # messages[j].id

\* The merge the claim describes: the messages of S are taken in order and
\* each is appended iff no message of the context, as it is at that point,
\* has its id.
RECURSIVE MergeOneByOne(_, _)
MergeOneByOne(C, S) ==
    IF S = << >> THEN C
    ELSE MergeOneByOne(IF Head(S).id \in Ids(C) THEN C ELSE Append(C, Head(S)),
                       Tail(S))

\* C11 (id uniqueness under merge), as claimed: right after
\* inject_chat_ctx(S) on a context whose ids were pairwise distinct, the ids
\* of the context are pairwise distinct, and the context is the one obtained
\* by appending each message of S iff its id is not yet in the context.
C11_MergeKeepsIdsUnique ==
    (last_inject.times = 1 /\ UniqueIds(last_inject.before)) =>
        /\ UniqueIds(chat_ctx[last_inject.task])
        /\ chat_ctx[last_inject.task]
               = MergeOneByOne(last_inject.before, last_inject.src)

\* The instances the registry holds.
Registered == {registered_tasks[k] : k \in DOMAIN registered_tasks}

\* C12 (registration monotonicity): right after a registration whose key was
\* already present (register_task with a name, register_task without a name
\* for an instance whose type is a key, or the construction of a task with a
\* name), the call has failed, the registry is the one before the call and
\* the key maps to the instance it mapped to.
C12_RegistrationMonotonic ==
    (last_call.op \in {"register_task", "construct"} /\ last_call.was # None) =>
        /\ last_call.ret = "ValueError"
        /\ ~last_call.changed
        /\ last_call.key \in DOMAIN registered_tasks
        /\ registered_tasks[last_call.key] = last_call.was

\* One inline task is registered under its type and under a name that the
\* construction of a task was refused for; then the registration of the
\* other inline task, without a name, has failed.
C12_Witness ==
    /\ last_call.op = "register_task" /\ last_call.key = "AgentInlineTask"
    /\ last_call.was \in InlineTasks /\ last_call.task \in InlineTasks
    /\ last_call.was # last_call.task
    /\ last_call.ret = "ValueError"
    /\ "servicing" \in DOMAIN registered_tasks
    /\ registered_tasks["servicing"] = last_call.was

\* C13 (de-duplication): the list all_registered_tasks returned holds each
\* registered instance once and nothing else.
C13_DeDuplication ==
    last_call.op = "all_registered_tasks" =>
        LET l == last_call.list
        IN /\ {l[i] : i \in DOMAIN l} = Registered
           /\ \A i, j \in DOMAIN l : i # j => l[i] # l[j]

\* Four keys map to two instances, each registered under a name and under
\* its type, and the list has two entries.
C13_Witness ==
    /\ last_call.op = "all_registered_tasks"
    /\ DOMAIN registered_tasks = Keys
    /\ registered_tasks["assistant"] = registered_tasks["AgentTask"]
    /\ registered_tasks["servicing"] = registered_tasks["AgentInlineTask"]
    /\ Len(last_call.list) = 2

\* C14 (lookup): get_task(key) has returned the instance the key maps to
\* when the key was present and has failed when it was absent, and the
\* registry is the one before the call.
C14_Lookup ==
    last_call.op = "get_task" =>
        /\ last_call.was # None =>
               /\ last_call.ret = last_call.was
               /\ last_call.ret = registered_tasks[last_call.key]
        /\ last_call.was = None =>
               /\ last_call.ret = "ValueError"
               /\ last_call.key \notin DOMAIN registered_tasks
        /\ ~last_call.changed

\* A lookup by type has missed although an instance of a subclass and one
\* under a name are registered.
C14_Witness ==
    /\ last_call.op = "get_task" /\ last_call.key = "AgentTask"
    /\ last_call.ret = "ValueError"
    /\ "AgentInlineTask" \in DOMAIN registered_tasks
    /\ "assistant" \in DOMAIN registered_tasks

\* C15 (the registry only grows): in every step, whatever the operation, a
\* key that is present stays present and keeps its instance, and a key that
\* becomes present was added by a registration that succeeded for it.
C15_GrowOnly ==
    [][/\ \A k \in DOMAIN registered_tasks :
              /\ k \in DOMAIN registered_tasks'
              /\ registered_tasks'[k] = registered_tasks[k]
       /\ \A k \in (DOMAIN registered_tasks') \ (DOMAIN registered_tasks) :
              /\ last_call'.op \in {"register_task", "construct"}
              /\ last_call'.key = k
              /\ last_call'.ret = registered_tasks'[k]]_vars

\* Three keys are present, a registration has just been refused, and an
\* inline task has been run and resolved in between.
C15_Witness ==
    /\ Cardinality(DOMAIN registered_tasks) >= 3
    /\ last_call.op = "register_task" /\ last_call.ret = "ValueError"
    /\ \E t \in InlineTasks : Exited(t) /\ first_op[t].op # None

\* C16 (liveness of delegation): whenever a task is suspended in run() and a
\* terminal operation has been invoked on it, eventually that run() call has
\* exited, delivering an outcome to its caller, with the task that was
\* current when it was invoked current again.
C16_DelegationEnds ==
    \A t \in InlineTasks :
        (pc[t] = "awaiting" /\ first_op[t].op # None)
            ~> (/\ Exited(t)
                /\ outcome[t].kind # None
                /\ current_agent_task = entry_task[t])

\* Both inline tasks were suspended, one inside the other, both were
\* resolved while suspended, and both runs have exited.
C16_Witness ==
    /\ \A t \in InlineTasks :
           /\ ExitedByResolution(t)
           /\ first_op[t].op # None
    /\ \E t \in InlineTasks : entry_task[t] \in InlineTasks
    /\ nruns = 2

\* C17 (stack discipline under every interleaving), as claimed: whatever the
\* order in which the terminal operations of two nested inline tasks are
\* invoked (no run being cancelled or failing in its setup), the current
\* task is never an inline task whose run has exited, and once no run is in
\* flight the current task is the one that was current before the outer run.
C17_StackDiscipline ==
    NoAbnormalExit =>
        /\ current_agent_task \in InlineTasks =>
               pc[current_agent_task] # "exited"
        /\ (\A t \in InlineTasks : pc[t] \in {"created", "exited"}) =>
               current_agent_task = RootTask

\* C18 (restoration on abnormal exits): when a run() call has ended because
\* starting the proactive reply raised, or because it was cancelled while
\* suspended, the current task right after its exit was the task that was
\* current when it was invoked.
C18_AbnormalExitRestores ==
    \A t \in InlineTasks :
        (Exited(t) /\ outcome[t].via \in {"setup", "cancel"}) =>
            /\ parent_task[t] = entry_task[t]
            /\ exit_task[t] = entry_task[t]

\* Inside a suspended run a second run failed in its setup with its slot
\* pending and gave the current task back to the first; the first was then
\* cancelled with its slot pending and gave it back to the root task.
C18_Witness ==
    \E t, u \in InlineTasks :
        /\ Exited(t) /\ outcome[t].via = "cancel"
        /\ done_fut[t] = Cancelled /\ entry_task[t] = RootTask
        /\ Exited(u) /\ outcome[u].via = "setup"
        /\ done_fut[u] = Pending /\ entry_task[u] = t /\ exit_task[u] = t
        /\ current_agent_task = RootTask

\* C19 (error identity on early exit), as claimed: when a run() call has
\* ended because starting the proactive reply raised an error E and the slot
\* is pending, the failure its caller received is E.
C19_SetupErrorReachesCaller ==
    \A t \in InlineTasks :
        (Exited(t) /\ outcome[t].via = "setup" /\ ~Done(done_fut[t])) =>
            outcome[t].kind = "SetupError"

\* C20 (exactly-once failure propagation), as claimed: once a run() call of
\* a task has raised the terminal failure, no later run() call of that task
\* raises it.
C20_FailureRaisedOnce ==
    [][\A t \in InlineTasks :
           (Exited(t) /\ outcome[t].kind = "TaskFailed") =>
               ~(/\ \E p \in BOOLEAN, sp \in SpeechHandles \cup {None},
                       f \in BOOLEAN : RunStart(t, p, sp, f)
                 /\ outcome'[t].kind = "TaskFailed")]_vars

\* C21 (lifecycle order), as claimed: the completion slot of an inline task
\* on which run() has never been invoked is pending, whatever terminal
\* operations were invoked on it.
C21_ResolvedOnlyWhenRun ==
    \A t \in InlineTasks : pc[t] = "created" => ~Done(done_fut[t])

\* C22 (proactive reply placement): in every invocation of run() in which
\* starting the reply does not raise, with proactive_reply true one reply is
\* created, nested under the speech of the caller when there is one and
\* queued for playout otherwise; with proactive_reply false there is none.
C22_ReplyPlacement ==
    [][\A t \in InlineTasks, p \in BOOLEAN, sp \in SpeechHandles \cup {None} :
           RunStart(t, p, sp, FALSE) =>
               /\ (p /\ sp # None) => reply'[t] = "nested"
               /\ (p /\ sp = None) => reply'[t] = "queued"
               /\ ~p => reply'[t] = "none"
               /\ parent_speech'[t] = sp]_vars

\* One task was run under a speech and its reply is nested, another was run
\* without one and its reply is queued.
C22_Witness ==
    \E t, u \in InlineTasks :
        /\ pc[t] # "created" /\ parent_speech[t] # None /\ reply[t] = "nested"
        /\ pc[u] # "created" /\ parent_speech[u] = None /\ reply[u] = "queued"

C24_SilentMarker ==
    [][\A t \in InlineTasks :
           (on_success(t) \/ \E reason \in Reasons : on_error(t, reason)) =>
               LET marker == SilentSentinel(result'[t], done_fut'[t])
               IN /\ marker.raised = None
                  /\ marker.result = result'[t]
                  /\ marker.error =
                         IF done_fut'[t].state = "exception"
                         THEN [type |-> "TaskFailed",
                               reason |-> done_fut'[t].reason]
                         ELSE None]_vars

\* The ids of the messages of the conversation (not the system prompt) held
\* by a context.
UserIds(messages) ==
    {messages[i].id : i \in {j \in DOMAIN messages : messages[j].role = "user"}}

\* C25 (context merge-back on completion), as claimed: in the state a run()
\* call leaves when it completes, the context of the task that is current
\* again holds every conversation message the context of the inline task
\* holds.
C25_MergeBack ==
    [][\A t \in InlineTasks :
           (RunResume(t) /\ outcome'[t].via = "await") =>
               UserIds(chat_ctx'[t])
                   \subseteq UserIds(chat_ctx'[current_agent_task'])]_vars

\* C26 (merge atomicity), as claimed: under every interleaving of merges and
\* turn-loop appends, every step keeps the messages each context held, in
\* their places, and a context whose ids were pairwise distinct has pairwise
\* distinct ids after the step, unless the step is a turn-loop append of an
\* id the context already holds.
C26_MergeAtomic ==
    [][\A t \in Tasks :
           /\ Len(chat_ctx'[t]) >= Len(chat_ctx[t])
           /\ SubSeq(chat_ctx'[t], 1, Len(chat_ctx[t])) = chat_ctx[t]
           /\ (/\ UniqueIds(chat_ctx[t])
               /\ ~\E m \in Msgs : m.id \in Ids(chat_ctx[t]) /\ AppendMsg(m)) =>
                  UniqueIds(chat_ctx'[t])]_vars

\* C27 (instruction seeding): every construction that succeeds leaves the
\* new task with a chat context that is a single system message carrying the
\* instructions when they are a non-empty string, and with an empty chat
\* context when they are None or the empty string.
C27_InstructionSeeding ==
    [][\A t \in Tasks, name \in Names \cup {None},
          instructions \in Instructions \cup {None} :
           (Construct(t, name, instructions) /\ t \in constructed') =>
               IF instructions \in Instructions \ {""}
               THEN /\ Len(chat_ctx'[t]) = 1
                    /\ chat_ctx'[t][1].role = "system"
                    /\ chat_ctx'[t][1].text = instructions
               ELSE chat_ctx'[t] = << >>]_vars

\* One inline task was constructed with instructions and holds one system
\* message, the other without and holds none.
C27_Witness ==
    \E t, u \in constructed \cap InlineTasks :
        /\ Len(chat_ctx[t]) = 1 /\ chat_ctx[t][1].role = "system"
        /\ chat_ctx[t][1].text = "be kind"
        /\ chat_ctx[u] = << >>

\* C28 (key selection): every register_task call adds at most one key, the
\* name when a name is given and the concrete type of the instance when
\* none is, and it succeeds whenever that one key is absent, whatever other
\* keys (the type of the instance, a name, another type) are present.
C28_KeySelection ==
    [][\A t \in Tasks, name \in Names \cup {None} :
           (/\ last_call' # last_call
            /\ last_call'.op = "register_task"
            /\ last_call'.task = t
            /\ RegisterTask(t, name)) =>
               LET key == IF name # None THEN name ELSE TypeOf(t)
               IN /\ (DOMAIN registered_tasks') \ (DOMAIN registered_tasks)
                         \subseteq {key}
                  /\ key \notin DOMAIN registered_tasks =>
                         /\ DOMAIN registered_tasks'
                                = DOMAIN registered_tasks \cup {key}
                         /\ registered_tasks'[key] = t
                         /\ last_call'.ret = t]_vars

\* The root task is registered under its name and, afterwards, under its
\* type; an inline task is registered under its type (a subclass of the
\* root's) and, afterwards, under a name.
C28_Witness ==
    /\ DOMAIN registered_tasks = Keys
    /\ registered_tasks["AgentTask"] = RootTask
    /\ registered_tasks["assistant"] = RootTask
    /\ registered_tasks["AgentInlineTask"] \in InlineTasks
    /\ registered_tasks["servicing"] = registered_tasks["AgentInlineTask"]
    /\ last_call.op = "register_task" /\ last_call.key = "servicing"
    /\ last_call.ret = last_call.task

\* C29 (frame of the terminal operations): every step that is on_success or
\* on_error of a task T leaves the current task, the position of every run,
\* every result, the completion slot of every other task, the registry and
\* every chat context as they were; and every step that changes the current
\* task is the start or the end of a run().
C29_TerminalOpsFrame ==
    [][/\ \A t \in InlineTasks :
              (/\ nops' # nops
               /\ on_success(t) \/ \E reason \in Reasons : on_error(t, reason)) =>
                  /\ current_agent_task' = current_agent_task
                  /\ pc' = pc
                  /\ result' = result
                  /\ \A u \in InlineTasks \ {t} : done_fut'[u] = done_fut[u]
                  /\ registered_tasks' = registered_tasks
                  /\ chat_ctx' = chat_ctx
       /\ current_agent_task' # current_agent_task =>
              \E t \in InlineTasks :
                  \/ RunResume(t)
                  \/ \E p \in BOOLEAN, sp \in SpeechHandles \cup {None} :
                         RunStart(t, p, sp, FALSE)]_vars

\* While one inline task is suspended inside another and is current, with
\* its slot pending and no terminal operation invoked on it, the outer task
\* has been failed by on_error and then on_success was invoked on it.
C29_Witness ==
    \E t, u \in InlineTasks :
        /\ t # u
        /\ pc[t] = "awaiting" /\ pc[u] = "awaiting"
        /\ entry_task[u] = t /\ current_agent_task = u
        /\ first_op[t].op = "on_error" /\ ops_called[t] = BothOps
        /\ ops_called[u] = {} /\ ~Done(done_fut[u])

====
